---- MODULE Spec2Model ----
(***************************************************************************)
(* PriceMonitorServer (src/src/index.ts): a price store fed by an exchange *)
(* ticker stream and an on-chain order-book poller, and a WebSocket hub    *)
(* that broadcasts the fee-adjusted spread of every pair to its clients.   *)
(*                                                                         *)
(* The event loop runs one handler at a time, so every action below is one *)
(* handler (or one continuation of an async function after an await) run   *)
(* to completion.                                                          *)
(***************************************************************************)
EXTENDS Integers, Sequences, FiniteSets, TLC

----------------------------------------------------------------------------
(* Bounds of the model. *)

\* client connections accepted during a run
MaxClients == 1
\* updateAllSerumPrices calls that may be awaiting a fetch at the same time
MaxCycles == 2
\* the feeds serve the first ActivePairs pairs of TRADING_PAIRS: the exchange
\* sends tickers for them and their markets can be loaded; for a pair beyond
\* them Market.load fails and no ticker arrives
ActivePairs == 2
\* the largest whole price of the grid of prices the spread computation is
\* checked on
MaxPrice == 6

----------------------------------------------------------------------------
(* Program constants. *)

\* binanceFeeRate = 0.001 and solanaFeeRate = 0.003, in thousandths
BinanceFeePerMille == 1
SolanaFeePerMille == 3

\* TRADING_PAIRS, with the fields the handlers read
TRADING_PAIRS ==
  << [name |-> "BTC/USDC", binanceSymbol |-> "BTCUSDC"],
     [name |-> "ETH/USDC", binanceSymbol |-> "ETHUSDC"],
     [name |-> "SOL/USDC", binanceSymbol |-> "SOLUSDC"] >>

PairNames == { TRADING_PAIRS[i].name : i \in DOMAIN TRADING_PAIRS }

\* String.prototype.toLowerCase on the strings that occur
toLowerCase(s) ==
  CASE s = "BTCUSDC" -> "btcusdc"
    [] s = "ETHUSDC" -> "ethusdc"
    [] s = "SOLUSDC" -> "solusdc"
    [] s = "DOGEUSDC" -> "dogeusdc"
    [] OTHER -> s

----------------------------------------------------------------------------
(* JavaScript numbers.  A number is [k, v]: k = "fin" with v the value in  *)
(* units of 1/PriceScale, k = "inf" with v the sign, k = "nan", or         *)
(* k = "undefined" for the value of a missing map entry or book level.     *)

\* fixed-point scale of a finite number (halves: a mid price of two whole
\* prices is exact)
PriceScale == 2

Fin(v) == [k |-> "fin", v |-> v]
NaN == [k |-> "nan", v |-> 0]
Infinity(sign) == [k |-> "inf", v |-> sign]
Undefined == [k |-> "undefined", v |-> 0]

\* ToBoolean of a number or undefined: false for undefined, NaN, +0 and -0
Truthy(x) == x.k = "inf" \/ (x.k = "fin" /\ x.v # 0)

Digits == {"0", "1", "2", "3", "4", "5", "6", "7", "8", "9"}

DigitVal(ch) ==
  CASE ch = "0" -> 0 [] ch = "1" -> 1 [] ch = "2" -> 2 [] ch = "3" -> 3
    [] ch = "4" -> 4 [] ch = "5" -> 5 [] ch = "6" -> 6 [] ch = "7" -> 7
    [] ch = "8" -> 8 [] ch = "9" -> 9

\* the longest prefix of decimal digits of a character sequence
RECURSIVE DigitPrefix(_)
DigitPrefix(s) ==
  IF s = << >> \/ Head(s) \notin Digits THEN << >>
  ELSE <<Head(s)>> \o DigitPrefix(Tail(s))

RECURSIVE DigitsValue(_, _)
DigitsValue(s, acc) ==
  IF s = << >> THEN acc ELSE DigitsValue(Tail(s), 10 * acc + DigitVal(Head(s)))

InfinityChars == <<"I", "n", "f", "i", "n", "i", "t", "y">>

StartsWith(s, p) == Len(s) >= Len(p) /\ SubSeq(s, 1, Len(p)) = p

\* a string value [str |-> TRUE, chars |-> its characters], or a field that
\* is missing from the parsed JSON object
Str(chars) == [str |-> TRUE, chars |-> chars]
Missing == [str |-> FALSE, chars |-> << >>]

\* parseFloat (strings without a fraction or exponent part; a missing field
\* is converted to "undefined" and parses as NaN): an optional sign, then
\* "Infinity" or the longest run of digits, NaN when there is neither
parseFloat(x) ==
  IF ~x.str THEN NaN
  ELSE LET s == x.chars
           neg == s # << >> /\ Head(s) = "-"
           signed == s # << >> /\ Head(s) \in {"-", "+"}
           body == IF signed THEN Tail(s) ELSE s
           sgn == IF neg THEN -1 ELSE 1
       IN IF StartsWith(body, InfinityChars) THEN Infinity(sgn)
          ELSE IF DigitPrefix(body) = << >> THEN NaN
          ELSE Fin(sgn * PriceScale * DigitsValue(DigitPrefix(body), 0))

----------------------------------------------------------------------------
(* The price maps (Map<string, number>): functions whose domain is the set *)
(* of keys that have been set.                                             *)

MapGet(m, key) == IF key \in DOMAIN m THEN m[key] ELSE Undefined

MapSet(m, key, val) ==
  [p \in DOMAIN m \cup {key} |-> IF p = key THEN val ELSE m[p]]

EmptyMap == [p \in {} |-> Undefined]

----------------------------------------------------------------------------
(* calculatePriceDifference.  priceDifference is in units of               *)
(* 1/(1000 * PriceScale); percentDifference is the string toFixed(2)       *)
(* yields, kept as its sign, whole part and two decimals.  The timestamp   *)
(* field is left out: the clock is not part of the state.                  *)

Abs(n) == IF n < 0 THEN -n ELSE n

\* (a slip: the hundredths are cut off instead of rounded)
toFixed2Truncating(num, den) ==
  LET negative == (num < 0) # (den < 0)
      n == (100 * Abs(num)) \div Abs(den)
  IN [text |-> "fixed", sign |-> IF negative /\ num # 0 THEN "-" ELSE "",
      whole |-> n \div 100, cents |-> n % 100]

\* Number.prototype.toFixed(2) of num/den: the sign first, then the
\* magnitude rounded to hundredths, ties upwards.  The two decimals are
\* taken by long division, which keeps every intermediate value below ten
\* times the divisor.
toFixed2(num, den) ==
  LET negative == (num < 0) # (den < 0)
      d == Abs(den)
      r0 == Abs(num) % d
      r1 == (10 * r0) % d
      r2 == (10 * r1) % d
      n0 == 100 * (Abs(num) \div d) + 10 * ((10 * r0) \div d) + (10 * r1) \div d
      n == IF 2 * r2 >= d THEN n0 + 1 ELSE n0
  IN [text |-> "fixed", sign |-> IF negative /\ num # 0 THEN "-" ELSE "",
      whole |-> n \div 100, cents |-> n % 100]

NonFiniteText(x) ==
  [text |-> IF x.k = "nan" THEN "NaN" ELSE "Infinity",
   sign |-> IF x.k = "inf" /\ x.v < 0 THEN "-" ELSE "", whole |-> 0, cents |-> 0]

calculatePriceDifference(pair, binancePrice, serumPrice) ==
  LET finite == binancePrice.k = "fin" /\ serumPrice.k = "fin"
      binancePriceAfterFees == binancePrice.v * (1000 - BinanceFeePerMille)
      serumPriceAfterFees == serumPrice.v * (1000 - SolanaFeePerMille)
      priceDifference == binancePriceAfterFees - serumPriceAfterFees
      \* one operand is an infinity (both are truthy, so neither is NaN):
      \* of like sign the difference is NaN, else it has the sign of the
      \* exchange side, or the opposite of the on-chain side
      nonFinite ==
        IF binancePrice.k = "inf" /\ serumPrice.k = "inf"
        THEN IF binancePrice.v = serumPrice.v THEN NaN
             ELSE Infinity(binancePrice.v)
        ELSE IF binancePrice.k = "inf" THEN Infinity(binancePrice.v)
        ELSE Infinity(-serumPrice.v)
      nonFinitePercent ==
        IF serumPrice.k = "inf" \/ nonFinite.k = "nan" THEN NaN
        ELSE Infinity(IF serumPrice.v < 0 THEN -nonFinite.v ELSE nonFinite.v)
  IN [pair |-> pair,
      binancePrice |-> binancePrice,
      serumPrice |-> serumPrice,
      priceDifference |-> IF finite THEN Fin(priceDifference) ELSE nonFinite,
      percentDifference |->
        IF finite THEN toFixed2(priceDifference * 100, serumPriceAfterFees)
        ELSE NonFiniteText(nonFinitePercent)]

\* getAllPairData: one record per configured pair whose two prices are
\* both truthy, in the order of TRADING_PAIRS
RECURSIVE PairDataFrom(_, _, _)
PairDataFrom(i, binancePrices, serumPrices) ==
  IF i > Len(TRADING_PAIRS) THEN << >>
  ELSE LET pair == TRADING_PAIRS[i]
           binancePrice == MapGet(binancePrices, pair.name)
           serumPrice == MapGet(serumPrices, pair.name)
           rest == PairDataFrom(i + 1, binancePrices, serumPrices)
       IN IF Truthy(binancePrice) /\ Truthy(serumPrice)
          THEN <<calculatePriceDifference(pair.name, binancePrice, serumPrice)>>
                 \o rest
          ELSE rest

\* (a slip: "||" for "&&" in the test of the two prices)
RECURSIVE PairDataEitherFrom(_, _, _)
PairDataEitherFrom(i, binancePrices, serumPrices) ==
  IF i > Len(TRADING_PAIRS) THEN << >>
  ELSE LET pair == TRADING_PAIRS[i]
           binancePrice == MapGet(binancePrices, pair.name)
           serumPrice == MapGet(serumPrices, pair.name)
           rest == PairDataEitherFrom(i + 1, binancePrices, serumPrices)
       IN IF Truthy(binancePrice) \/ Truthy(serumPrice)
          THEN <<calculatePriceDifference(pair.name, binancePrice, serumPrice)>>
                 \o rest
          ELSE rest

getAllPairDataEither(binancePrices, serumPrices) ==
  PairDataEitherFrom(1, binancePrices, serumPrices)

getAllPairData(binancePrices, serumPrices) ==
  PairDataFrom(1, binancePrices, serumPrices)

----------------------------------------------------------------------------
(* Inputs of the handlers. *)

ClientIds == 1..MaxClients

\* a topic string, as the segments String.prototype.split(".") yields
Topic(type, pair) == <<type, pair>>
DifferenceAll == Topic("difference", "all")

\* the params lists clients send in SUBSCRIBE requests
ParamLists ==
  { <<DifferenceAll>>,
    <<Topic("price", "SOL/USDC"), Topic("difference", "BTC/USDC")>> }

\* messages of a client: text that is not JSON, a request of another
\* method, and SUBSCRIBE requests whose params is a list of topics, is
\* missing, or is a single topic string instead of a list
ClientMessages ==
  { [json |-> FALSE, method |-> "", params |-> "missing", items |-> << >>],
    [json |-> TRUE, method |-> "PING", params |-> "missing", items |-> << >>],
    [json |-> TRUE, method |-> "SUBSCRIBE", params |-> "missing", items |-> << >>],
    [json |-> TRUE, method |-> "SUBSCRIBE", params |-> "string",
     items |-> <<DifferenceAll>>] }
  \cup { [json |-> TRUE, method |-> "SUBSCRIBE", params |-> "list", items |-> l] :
         l \in ParamLists }

\* the strings the exchange sends as last price "c"
TickStrings == { Str(<<"3">>), Str(<<"0">>) }

\* the pairs the feeds serve
ActiveIndexes == { i \in DOMAIN TRADING_PAIRS : i <= ActivePairs }

\* stream names, as the parts String.prototype.split("@") yields: those of
\* the served pairs, and one of a symbol that is not configured
Streams == { <<toLowerCase(TRADING_PAIRS[i].binanceSymbol), "ticker">> :
             i \in ActiveIndexes } \cup { <<"dogeusdc", "ticker">> }

\* messages of the exchange: text that is not JSON, JSON without a data
\* field (a subscription reply), a payload with data and no stream field,
\* and ticker payloads
BinanceMessages ==
  { [json |-> FALSE, hasData |-> FALSE, hasStream |-> FALSE,
     stream |-> << >>, c |-> Missing],
    [json |-> TRUE, hasData |-> FALSE, hasStream |-> FALSE,
     stream |-> << >>, c |-> Missing],
    [json |-> TRUE, hasData |-> TRUE, hasStream |-> FALSE,
     stream |-> << >>, c |-> Str(<<"3">>)] }
  \cup { [json |-> TRUE, hasData |-> TRUE, hasStream |-> TRUE, stream |-> st, c |-> c] :
         st \in Streams, c \in TickStrings }

\* best prices of the order book, in whole prices
BookPrices == { Fin(2 * PriceScale), Fin(4 * PriceScale) }

\* outcomes of loadBids/loadAsks for one pair: a rejected fetch, or the
\* first level of getL2(1) on each side, undefined for an empty side
FetchResults ==
  { [error |-> TRUE, bestBid |-> Undefined, bestAsk |-> Undefined] }
  \cup { [error |-> FALSE, bestBid |-> b, bestAsk |-> a] :
         b \in {Undefined, Fin(2 * PriceScale)}, a \in BookPrices \cup {Undefined} }

----------------------------------------------------------------------------
(* State. *)

VARIABLES
  proc,               \* "running", "exited" (process.exit) or "crashed"
  initPc,             \* initialize(): index of the pair whose Market.load is awaited
  markets,            \* this.markets: the pair names, in insertion order
  lastBinancePrices,  \* this.lastBinancePrices
  lastSerumPrices,    \* this.lastSerumPrices
  binanceConns,       \* readyState of each exchange socket not yet closed
  binanceWs,          \* this.binanceWs: "null", "live" (the last of binanceConns) or "closed"
  reconnectTimers,    \* pending setTimeout(startBinanceWebSockets, 5000)
  intervalOn,         \* setInterval(updateAllSerumPrices, 1000) is set
  pollCycles,         \* updateAllSerumPrices calls awaiting a fetch, in start order
  wssOpen,            \* this.wss accepts connections
  clients,            \* this.clients
  readyState,         \* readyState of each client socket ("none": not yet connected)
  subscribed,         \* history: the "difference" topics each connected client has subscribed to
  loadFailed,         \* history: the pairs whose Market.load was rejected
  last                \* history: the handler that ran last and what it did

vars == << proc, initPc, markets, lastBinancePrices, lastSerumPrices, binanceConns,
           binanceWs, reconnectTimers, intervalOn, pollCycles, wssOpen, clients,
           readyState, subscribed, loadFailed, last >>

\* the record of a handler that sent nothing and scheduled nothing.  ok:
\* the handler took its main path (a price stored, a message parsed); kind:
\* the kind of exchange message handled, or "rejected" for a fetch whose
\* promise was rejected;
\* sends: its ws.send calls; broadcasts: its broadcastPrices calls;
\* scheduled: its setTimeout calls
Ran(op) ==
  [op |-> op, kind |-> "", ok |-> TRUE, sends |-> {}, broadcasts |-> 0,
   scheduled |-> 0]

Init ==
  /\ proc = "running"
  /\ initPc = 1
  /\ markets = << >>
  /\ lastBinancePrices = EmptyMap
  /\ lastSerumPrices = EmptyMap
  /\ binanceConns = << >>
  /\ binanceWs = "null"
  /\ reconnectTimers = 0
  /\ intervalOn = FALSE
  /\ pollCycles = << >>
  /\ wssOpen = TRUE
  /\ clients = {}
  /\ readyState = [c \in ClientIds |-> "none"]
  /\ subscribed = [c \in ClientIds |-> {}]
  /\ loadFailed = {}
  /\ last = Ran("constructor")

----------------------------------------------------------------------------
(* Sends. *)

\* ws.send(JSON.stringify(...)) on client c
Send(c, via, data, ready) ==
  [to |-> c, via |-> via, data |-> data, ready |-> ready[c]]

\* broadcastPrices: the sends it performs
broadcastPrices(binancePrices, serumPrices, registry, ready) ==
  LET allData == getAllPairData(binancePrices, serumPrices)
  IN IF Len(allData) > 0
     THEN { Send(c, "broadcast", allData, ready) :
            c \in { x \in registry : ready[x] = "OPEN" } }
     ELSE {}

\* sendAllPairData
sendAllPairData(c, binancePrices, serumPrices, ready) ==
  { Send(c, "all", getAllPairData(binancePrices, serumPrices), ready) }

\* sendSinglePairData
sendSinglePairData(c, pair, binancePrices, serumPrices, ready) ==
  LET binancePrice == MapGet(binancePrices, pair)
      serumPrice == MapGet(serumPrices, pair)
  IN IF Truthy(binancePrice) /\ Truthy(serumPrice)
     THEN { Send(c, "single",
                 <<calculatePriceDifference(pair, binancePrice, serumPrice)>>, ready) }
     ELSE {}

\* handleSubscription on a params list
handleSubscription(c, params, binancePrices, serumPrices, ready) ==
  IF \E i \in DOMAIN params : params[i] = DifferenceAll
  THEN sendAllPairData(c, binancePrices, serumPrices, ready)
  ELSE UNION { IF params[i][1] = "difference"
               THEN sendSinglePairData(c, params[i][2], binancePrices,
                                       serumPrices, ready)
               ELSE {} : i \in DOMAIN params }

----------------------------------------------------------------------------
(* Startup: initialize() and the on-chain poller. *)

RemoveAt(seq, i) == SubSeq(seq, 1, i - 1) \o SubSeq(seq, i + 1, Len(seq))

\* startBinanceWebSockets: a new socket, with its four handlers
startBinanceWebSockets ==
  /\ binanceConns' = Append(binanceConns, "CONNECTING")
  /\ binanceWs' = "live"

\* startSerumWebSockets awaits the first updateAllSerumPrices call in a
\* try whose catch sets a retry timer; the call catches what its fetches
\* throw pair by pair and nothing else in it throws, so it always resolves,
\* the catch does not run, and initialize() goes on to setInterval.
\* updateAllSerumPrices up to its first await: with no market loaded the
\* loop body never runs and the call broadcasts at once, else it issues the
\* first market's fetches.  first: the call of startSerumWebSockets, after
\* whose completion initialize() sets the interval.
BeginCycle(op, mk, first) ==
  IF Len(mk) = 0
  THEN /\ pollCycles' = pollCycles
       /\ intervalOn' = (intervalOn \/ first)
       /\ last' = [Ran(op) EXCEPT
                     !.sends = broadcastPrices(lastBinancePrices, lastSerumPrices,
                                               clients, readyState),
                     !.broadcasts = 1]
  ELSE /\ pollCycles' = Append(pollCycles, [pos |-> 1, first |-> first])
       /\ intervalOn' = intervalOn
       /\ last' = Ran(op)

\* (a slip: this.markets.set stands after the try/catch, so it runs for a
\* failed load as well)
MarketsAfterLoadUnguarded(mk, pairName, ok) == Append(mk, pairName)

\* this.markets after Market.load of a pair settles: the pair is set when
\* the load resolved, and a rejection is only logged
MarketsAfterLoad(mk, pairName, ok) == IF ok THEN Append(mk, pairName) ELSE mk

\* initialize(): Market.load of the pair at initPc settles (ok: resolved).
\* After the last pair it starts the exchange socket and the first poll.
MarketLoad(ok) ==
  /\ proc = "running"
  /\ initPc \in DOMAIN TRADING_PAIRS
  /\ ok => initPc \in ActiveIndexes
  /\ LET pair == TRADING_PAIRS[initPc]
         mk == MarketsAfterLoad(markets, pair.name, ok)
     IN /\ markets' = mk
        /\ loadFailed' = IF ok THEN loadFailed ELSE loadFailed \cup {pair.name}
        /\ initPc' = initPc + 1
        /\ IF initPc = Len(TRADING_PAIRS)
           THEN /\ startBinanceWebSockets
                /\ BeginCycle("marketLoad", mk, TRUE)
           ELSE /\ last' = Ran("marketLoad")
                /\ UNCHANGED << binanceConns, binanceWs, intervalOn, pollCycles >>
  /\ UNCHANGED << proc, lastBinancePrices, lastSerumPrices, reconnectTimers,
                  wssOpen, clients, readyState, subscribed >>

\* the interval fires: a new updateAllSerumPrices call
PollTick ==
  /\ proc = "running"
  /\ intervalOn
  /\ Len(pollCycles) < MaxCycles
  /\ BeginCycle("pollTick", markets, FALSE)
  /\ UNCHANGED << loadFailed, proc, initPc, markets, lastBinancePrices, lastSerumPrices,
                  binanceConns, binanceWs, reconnectTimers, wssOpen, clients,
                  readyState, subscribed >>

\* a fetch outcome that yields no mid price: a rejected fetch or an empty side
FetchFailed(result) ==
  result.error \/ result.bestBid = Undefined \/ result.bestAsk = Undefined

\* (a slip: the mid price is stored outside the test of the two sides, so
\* an empty side stores NaN)
SerumPricesAfterFetchUnchecked(serumPrices, pairName, result) ==
  IF result.error THEN serumPrices
  ELSE MapSet(serumPrices, pairName,
              IF Truthy(result.bestBid) /\ Truthy(result.bestAsk)
              THEN Fin((result.bestBid.v + result.bestAsk.v) \div 2)
              ELSE NaN)

\* the body of the loop for one pair, given what its fetches returned
SerumPricesAfterFetch(serumPrices, pairName, result) ==
  IF ~result.error /\ Truthy(result.bestBid) /\ Truthy(result.bestAsk)
  THEN MapSet(serumPrices, pairName,
              Fin((result.bestBid.v + result.bestAsk.v) \div 2))
  ELSE serumPrices

\* (a slip: broadcastPrices is called inside the loop body, once per pair)
BroadcastsAfterPairInLoop(finished) == 1

\* the broadcastPrices calls that follow the handling of a pair: the call
\* stands after the loop, so there is one when the pair was the last
BroadcastsAfterPair(finished) == IF finished THEN 1 ELSE 0

\* updateAllSerumPrices resumes after Promise.all of a pair's fetches
\* settles: it handles the pair, then issues the next pair's fetches or,
\* after the last pair, broadcasts
FetchComplete(i, result) ==
  /\ proc = "running"
  /\ i \in DOMAIN pollCycles
  /\ LET cycle == pollCycles[i]
         pairName == markets[cycle.pos]
         serumPrices == SerumPricesAfterFetch(lastSerumPrices, pairName, result)
         finished == cycle.pos = Len(markets)
     IN /\ lastSerumPrices' = serumPrices
        /\ pollCycles' = IF finished THEN RemoveAt(pollCycles, i)
                         ELSE [pollCycles EXCEPT ![i].pos = @ + 1]
        /\ intervalOn' = (intervalOn \/ (finished /\ cycle.first))
        /\ last' = [Ran("fetch") EXCEPT
                      !.kind = IF result.error THEN "rejected" ELSE "",
                      !.ok = ~FetchFailed(result),
                      !.sends = IF BroadcastsAfterPair(finished) > 0
                                THEN broadcastPrices(lastBinancePrices, serumPrices,
                                                     clients, readyState)
                                ELSE {},
                      !.broadcasts = BroadcastsAfterPair(finished)]
  /\ UNCHANGED << loadFailed, proc, initPc, markets, lastBinancePrices, binanceConns, binanceWs,
                  reconnectTimers, wssOpen, clients, readyState, subscribed >>

----------------------------------------------------------------------------
(* The exchange socket. *)

\* 'open'
BinanceOpen(i) ==
  /\ proc = "running"
  /\ i \in DOMAIN binanceConns
  /\ binanceConns[i] = "CONNECTING"
  /\ binanceConns' = [binanceConns EXCEPT ![i] = "OPEN"]
  /\ last' = Ran("binanceOpen")
  /\ UNCHANGED << loadFailed, proc, initPc, markets, lastBinancePrices, lastSerumPrices, binanceWs,
                  reconnectTimers, intervalOn, pollCycles, wssOpen, clients,
                  readyState, subscribed >>

\* the configured pair of a stream name, "" when find() returns undefined
FindPair(symbol) ==
  LET hits == { i \in DOMAIN TRADING_PAIRS :
                toLowerCase(TRADING_PAIRS[i].binanceSymbol) = symbol }
  IN IF hits = {} THEN ""
     ELSE TRADING_PAIRS[CHOOSE i \in hits : \A j \in hits : i <= j].name

\* the 'message' handler throws: JSON.parse on text that is not JSON, or
\* message.stream.split on a payload with data and no stream
BinanceMessageThrows(m) == ~m.json \/ (m.hasData /\ ~m.hasStream)

\* (a slip: a symbol that find() does not resolve falls back to the first
\* configured pair)
BinanceMessagePairDefaulting(m) ==
  IF m.json /\ m.hasData /\ m.hasStream
  THEN IF FindPair(m.stream[1]) = "" THEN TRADING_PAIRS[1].name
       ELSE FindPair(m.stream[1])
  ELSE ""

\* the pair the 'message' handler stores a price for, "" when it stores none
BinanceMessagePair(m) ==
  IF m.json /\ m.hasData /\ m.hasStream THEN FindPair(m.stream[1]) ELSE ""

\* the value the 'message' handler stores
BinanceMessagePrice(m) == parseFloat(m.c)

\* what an exchange message is: text that is not JSON, JSON without a data
\* field, a payload without a stream field, or a ticker payload
BinanceMessageKind(m) ==
  IF ~m.json THEN "malformed"
  ELSE IF ~m.hasData THEN "nodata"
  ELSE IF ~m.hasStream THEN "nostream"
  ELSE "ticker"

\* (a slip: broadcastPrices is called before the price is set)
BinancePricesBeforeSet(before, after) == before

\* the exchange prices broadcastPrices reads in the 'message' handler, given
\* the map before and after the handler's Map.set: the call follows the
\* set with no await in between
BinancePricesAtBroadcast(before, after) == after

\* 'message'.  Nothing catches what the handler throws: the exception
\* leaves the event loop and ends the process.
BinanceMessage(i, m) ==
  /\ proc = "running"
  /\ i \in DOMAIN binanceConns
  /\ binanceConns[i] = "OPEN"
  /\ LET pair == BinanceMessagePair(m)
         binancePrices == MapSet(lastBinancePrices, pair, BinanceMessagePrice(m))
     IN IF BinanceMessageThrows(m)
        THEN /\ proc' = "crashed"
             /\ last' = [Ran("binanceMessage") EXCEPT
                           !.kind = BinanceMessageKind(m), !.ok = FALSE]
             /\ UNCHANGED lastBinancePrices
        ELSE IF pair = ""
        THEN /\ last' = [Ran("binanceMessage") EXCEPT
                           !.kind = BinanceMessageKind(m), !.ok = FALSE]
             /\ UNCHANGED << proc, lastBinancePrices >>
        ELSE /\ lastBinancePrices' = binancePrices
             /\ last' = [Ran("binanceMessage") EXCEPT
                           !.kind = BinanceMessageKind(m),
                           !.sends = broadcastPrices(
                                       BinancePricesAtBroadcast(lastBinancePrices,
                                                                binancePrices),
                                       lastSerumPrices, clients, readyState),
                           !.broadcasts = 1]
             /\ UNCHANGED proc
  /\ UNCHANGED << loadFailed, initPc, markets, lastSerumPrices, binanceConns, binanceWs,
                  reconnectTimers, intervalOn, pollCycles, wssOpen, clients,
                  readyState, subscribed >>

\* (a slip: the 'error' handler sets a reconnect timer as well)
TimersAfterErrorReconnecting(timers) == timers + 1

\* the pending reconnect timers after the 'error' handler: it only logs
TimersAfterError(timers) == timers

\* (a slip: the 'close' handler only logs)
TimersAfterCloseLogging(timers) == timers

\* the pending reconnect timers after the 'close' handler: setTimeout once
TimersAfterClose(timers) == timers + 1

\* 'error': the socket fails while connecting or streaming; ws then closes
\* it and emits 'close'
BinanceError(i) ==
  /\ proc = "running"
  /\ i \in DOMAIN binanceConns
  /\ binanceConns[i] \in {"CONNECTING", "OPEN"}
  /\ binanceConns' = [binanceConns EXCEPT ![i] = "CLOSING"]
  /\ reconnectTimers' = TimersAfterError(reconnectTimers)
  /\ last' = [Ran("binanceError") EXCEPT
                !.scheduled = TimersAfterError(reconnectTimers) - reconnectTimers]
  /\ UNCHANGED << loadFailed, proc, initPc, markets, lastBinancePrices, lastSerumPrices, binanceWs,
                  intervalOn, pollCycles, wssOpen, clients, readyState, subscribed >>

\* 'close': emitted once per socket, after an error (ok: FALSE) or when the
\* peer closes
BinanceClose(i) ==
  /\ proc = "running"
  /\ i \in DOMAIN binanceConns
  /\ binanceConns[i] \in {"OPEN", "CLOSING"}
  /\ binanceConns' = RemoveAt(binanceConns, i)
  /\ binanceWs' = IF i = Len(binanceConns) /\ binanceWs = "live" THEN "closed"
                  ELSE binanceWs
  /\ reconnectTimers' = TimersAfterClose(reconnectTimers)
  /\ last' = [Ran("binanceClose") EXCEPT
                !.ok = (binanceConns[i] = "OPEN"),
                !.scheduled = TimersAfterClose(reconnectTimers) - reconnectTimers]
  /\ UNCHANGED << loadFailed, proc, initPc, markets, lastBinancePrices, lastSerumPrices,
                  intervalOn, pollCycles, wssOpen, clients, readyState, subscribed >>

\* a reconnect timer fires
ReconnectTimer ==
  /\ proc = "running"
  /\ reconnectTimers > 0
  /\ reconnectTimers' = reconnectTimers - 1
  /\ startBinanceWebSockets
  /\ last' = Ran("reconnectTimer")
  /\ UNCHANGED << loadFailed, proc, initPc, markets, lastBinancePrices, lastSerumPrices,
                  intervalOn, pollCycles, wssOpen, clients, readyState, subscribed >>

----------------------------------------------------------------------------
(* The client hub. *)

\* wss 'connection': the next unused client socket, already open
ClientConnect(c) ==
  /\ proc = "running"
  /\ wssOpen
  /\ readyState[c] = "none"
  /\ \A d \in ClientIds : d < c => readyState[d] # "none"
  /\ clients' = clients \cup {c}
  /\ readyState' = [readyState EXCEPT ![c] = "OPEN"]
  /\ last' = Ran("clientConnect")
  /\ UNCHANGED << loadFailed, proc, initPc, markets, lastBinancePrices, lastSerumPrices,
                  binanceConns, binanceWs, reconnectTimers, intervalOn, pollCycles,
                  wssOpen, subscribed >>

\* what the client 'message' handler sends.  JSON.parse throwing, and the
\* TypeError of params.includes on a missing params, are caught by the
\* handler's try; a params string that contains "difference.all" passes
\* the includes test like a list does.
ClientMessageSends(c, m, binancePrices, serumPrices, ready) ==
  IF ~m.json \/ m.method # "SUBSCRIBE" \/ m.params = "missing" THEN {}
  ELSE IF m.params = "string"
  THEN IF m.items[1] = DifferenceAll
       THEN sendAllPairData(c, binancePrices, serumPrices, ready)
       ELSE {}
  ELSE handleSubscription(c, m.items, binancePrices, serumPrices, ready)

\* the topics of a params list that the topic grammar knows
DifferenceTopics(params) ==
  { params[i] : i \in { j \in DOMAIN params : params[j][1] = "difference" } }

\* client 'message'.  ws delivers the frames it has received also after
\* the socket has begun to close, up to the 'close' event.
ClientMessage(c, m) ==
  /\ proc = "running"
  /\ readyState[c] \in {"OPEN", "CLOSING"}
  /\ last' = [Ran("clientMessage") EXCEPT
                !.ok = m.json,
                !.sends = ClientMessageSends(c, m, lastBinancePrices,
                                             lastSerumPrices, readyState)]
  /\ subscribed' =
       IF m.json /\ m.method = "SUBSCRIBE" /\ m.params = "list"
       THEN [subscribed EXCEPT ![c] = @ \cup DifferenceTopics(m.items)]
       ELSE subscribed
  /\ UNCHANGED << loadFailed, proc, initPc, markets, lastBinancePrices, lastSerumPrices,
                  binanceConns, binanceWs, reconnectTimers, intervalOn, pollCycles,
                  wssOpen, clients, readyState >>

\* the client socket begins to close (a close frame or the end of the
\* connection arrives): readyState leaves OPEN before 'close' is emitted
ClientClosing(c) ==
  /\ proc = "running"
  /\ readyState[c] = "OPEN"
  /\ readyState' = [readyState EXCEPT ![c] = "CLOSING"]
  /\ last' = Ran("clientClosing")
  /\ UNCHANGED << loadFailed, proc, initPc, markets, lastBinancePrices, lastSerumPrices,
                  binanceConns, binanceWs, reconnectTimers, intervalOn, pollCycles,
                  wssOpen, clients, subscribed >>

\* the registry after the client 'close' handler
ClientsAfterClose(registry, c) == registry \ {c}

\* client 'close'
ClientClose(c) ==
  /\ proc = "running"
  /\ readyState[c] = "CLOSING"
  /\ readyState' = [readyState EXCEPT ![c] = "CLOSED"]
  /\ clients' = ClientsAfterClose(clients, c)
  /\ subscribed' = [subscribed EXCEPT ![c] = {}]
  /\ last' = Ran("clientClose")
  /\ UNCHANGED << loadFailed, proc, initPc, markets, lastBinancePrices, lastSerumPrices,
                  binanceConns, binanceWs, reconnectTimers, intervalOn, pollCycles,
                  wssOpen >>

----------------------------------------------------------------------------
(* Shutdown. *)

\* (a slip: the SIGINT handler calls cleanup() and not process.exit())
ProcAfterCleanupRunning == "running"

\* the process after the SIGINT handler: process.exit() follows cleanup()
\* in the same handler, so no event is handled after it
ProcAfterCleanup == "exited"

\* SIGINT: cleanup(), then process.exit() before any further event
Shutdown ==
  /\ proc = "running"
  /\ binanceConns' = IF binanceWs = "live"
                     THEN [binanceConns EXCEPT ![Len(binanceConns)] = "CLOSING"]
                     ELSE binanceConns
  /\ readyState' = [c \in ClientIds |->
                      IF c \in clients /\ readyState[c] = "OPEN" THEN "CLOSING"
                      ELSE readyState[c]]
  /\ wssOpen' = FALSE
  /\ proc' = ProcAfterCleanup
  /\ last' = Ran("cleanup")
  /\ UNCHANGED << loadFailed, initPc, markets, lastBinancePrices, lastSerumPrices, binanceWs,
                  reconnectTimers, intervalOn, pollCycles, clients, subscribed >>

----------------------------------------------------------------------------

Next ==
  \/ \E ok \in BOOLEAN : MarketLoad(ok)
  \/ PollTick
  \/ \E i \in 1..MaxCycles, result \in FetchResults : FetchComplete(i, result)
  \/ \E i \in DOMAIN binanceConns : BinanceOpen(i)
  \/ \E i \in DOMAIN binanceConns, m \in BinanceMessages : BinanceMessage(i, m)
  \/ \E i \in DOMAIN binanceConns : BinanceError(i)
  \/ \E i \in DOMAIN binanceConns : BinanceClose(i)
  \/ ReconnectTimer
  \/ \E c \in ClientIds : ClientConnect(c)
  \/ \E c \in ClientIds, m \in ClientMessages : ClientMessage(c, m)
  \/ \E c \in ClientIds : ClientClosing(c)
  \/ \E c \in ClientIds : ClientClose(c)
  \/ Shutdown

Spec == Init /\ [][Next]_vars

\* Scheduling: ws emits 'close' on a socket it has failed, and a timer that
\* is set fires.
FairSpec ==
  /\ Spec
  /\ WF_vars(\E i \in DOMAIN binanceConns :
               binanceConns[i] = "CLOSING" /\ BinanceClose(i))
  /\ WF_vars(ReconnectTimer)

\* The prices the spread computation is checked on, in units of
\* 1/PriceScale: every pair of prices of the grid up to MaxPrice, and the
\* pair of the documented example.
ExamplePrices == [exchange |-> 50000 * PriceScale, onChain |-> 49900 * PriceScale]

GridPrices == 1..(MaxPrice * PriceScale)

StoredPricePairs ==
  { [exchange |-> b, onChain |-> s] : b \in GridPrices, s \in GridPrices }
  \cup { ExamplePrices }

\* A running server that holds both prices of the first pair and has one
\* open client: the first pair's market is the one that resolved, the
\* first poll cycle has ended, the exchange socket is open, and the client
\* has just connected.
StoreInit ==
  /\ proc = "running"
  /\ initPc = Len(TRADING_PAIRS) + 1
  /\ markets = << TRADING_PAIRS[1].name >>
  /\ loadFailed = PairNames \ { TRADING_PAIRS[1].name }
  /\ \E pr \in StoredPricePairs :
       /\ lastBinancePrices = MapSet(EmptyMap, TRADING_PAIRS[1].name, Fin(pr.exchange))
       /\ lastSerumPrices = MapSet(EmptyMap, TRADING_PAIRS[1].name, Fin(pr.onChain))
  /\ binanceConns = << "OPEN" >>
  /\ binanceWs = "live"
  /\ reconnectTimers = 0
  /\ intervalOn = TRUE
  /\ pollCycles = << >>
  /\ wssOpen = TRUE
  /\ clients = {1}
  /\ readyState = [c \in ClientIds |-> IF c = 1 THEN "OPEN" ELSE "none"]
  /\ subscribed = [c \in ClientIds |-> {}]
  /\ last = Ran("clientConnect")

\* the requests of the client, each answered from the store
StoreNext == \E c \in ClientIds, m \in ClientMessages : ClientMessage(c, m)

StoreSpec == StoreInit /\ [][StoreNext]_vars

\* Scheduling for a hung fetch: the fetches of the first market may never
\* settle; a fetch of any other market that has been issued settles, with
\* a full book, and the interval timer fires.
HungFetchSpec ==
  /\ Spec
  /\ WF_vars(\E i \in 1..MaxCycles, result \in FetchResults :
               /\ i \in DOMAIN pollCycles
               /\ pollCycles[i].pos > 1
               /\ ~FetchFailed(result)
               /\ FetchComplete(i, result))
  /\ WF_vars(PollTick)

----------------------------------------------------------------------------
(* Properties. *)

\* the pairs that have an entry in both price maps
PairsWithBoth == DOMAIN lastBinancePrices \cap DOMAIN lastSerumPrices

\* the pairs a message carries a record for
PairsOf(data) == { data[i].pair : i \in DOMAIN data }

BroadcastSends == { s \in last.sends : s.via = "broadcast" }

\* C1: a message sent by a broadcast cycle holds no record for a pair that
\* lacks its exchange price or its on-chain price in the price store.
C1_BroadcastOnlyCompletePairs ==
  \A s \in BroadcastSends : PairsOf(s.data) \subseteq PairsWithBoth

\* a broadcast was sent while some pair had exactly one of its two prices
C1_Witness ==
  /\ BroadcastSends # {}
  /\ \E p \in PairNames : (p \in DOMAIN lastBinancePrices) # (p \in DOMAIN lastSerumPrices)

\* C2: a connected client that has never sent a SUBSCRIBE request receives
\* no message from any broadcast cycle.
C2_UnsubscribedReceivesNothing ==
  \A s \in BroadcastSends : subscribed[s.to] # {}

\* C3: a client whose only subscription is "difference.<P>" for one pair P
\* receives records for P only.
C3_PairSubscriberGetsOnlyItsPair ==
  \A s \in last.sends : \A p \in PairNames :
    subscribed[s.to] = {Topic("difference", p)} => PairsOf(s.data) \subseteq {p}

\* C4: a broadcast message to a client subscribed to "difference.all" holds
\* a record for exactly the configured pairs that have both prices in the
\* store at the moment of the broadcast.
C4_AllSubscriberGetsExactlyCompletePairs ==
  \A s \in BroadcastSends :
    DifferenceAll \in subscribed[s.to] => PairsOf(s.data) = PairsWithBoth \cap PairNames

\* C5: no send is performed to a client that is out of the registry, or
\* whose connection is not open.
C5_SendsOnlyToOpenRegisteredClients ==
  \A s \in last.sends : s.to \in clients /\ s.ready = "OPEN"

\* C6: each close of the exchange socket sets exactly one reconnect timer,
\* and there is never more than one exchange socket or pending reconnect
\* timer in all, also when 'error' and 'close' both came for a socket.
C6_OneReconnectPerClose ==
  /\ last.op = "binanceClose" => last.scheduled = 1
  /\ Len(binanceConns) + reconnectTimers <= 1

\* a socket has failed and closed ('error', then 'close'), and its one
\* reconnect timer is pending
C6_Witness ==
  /\ last.op = "binanceClose"
  /\ ~last.ok
  /\ reconnectTimers = 1
  /\ binanceConns = << >>

\* the exchange socket has failed or closed and none is connecting or open
BinanceDown ==
  /\ proc = "running"
  /\ binanceWs # "null"
  /\ \A i \in DOMAIN binanceConns : binanceConns[i] = "CLOSING"

BinanceConnecting == \E i \in DOMAIN binanceConns : binanceConns[i] = "CONNECTING"

\* C7: whenever the exchange socket has failed or closed, the adapter
\* connects again, however often that has happened before, for as long as
\* the process runs.
C7_ReconnectsEventually == BinanceDown ~> (BinanceConnecting \/ proc # "running")

\* a reconnect timer has fired and the new socket is connecting
C7_Witness ==
  /\ last.op = "reconnectTimer"
  /\ BinanceConnecting
  /\ proc = "running"

\* the exchange messages that are not JSON, or lack the data or stream field
NonTickerKinds == {"malformed", "nodata", "nostream"}

\* C8: an exchange message that is malformed or not a ticker payload is
\* ignored: the price store is unchanged, no broadcast is triggered and the
\* server keeps running.
C8_NonTickerIgnored ==
  [][ (last'.op = "binanceMessage" /\ last'.kind \in NonTickerKinds) =>
        /\ lastBinancePrices' = lastBinancePrices
        /\ lastSerumPrices' = lastSerumPrices
        /\ last'.broadcasts = 0
        /\ proc' = "running" ]_vars

\* a positive finite number
PositiveFinite(x) == x.k = "fin" /\ x.v > 0

\* C9: every value in the two price maps is a positive finite number.
C9_StoredPricesPositiveFinite ==
  /\ \A p \in DOMAIN lastBinancePrices : PositiveFinite(lastBinancePrices[p])
  /\ \A p \in DOMAIN lastSerumPrices : PositiveFinite(lastSerumPrices[p])

\* C10: when a pair's fetch fails or a side of its book is empty, the poll
\* cycle leaves the on-chain prices as they are and goes on: to the next
\* pair's fetches, or after the last pair to the broadcast.
C10_FailedFetchKeepsPriceAndCycle ==
  [][ (last'.op = "fetch" /\ ~last'.ok) =>
        /\ lastSerumPrices' = lastSerumPrices
        /\ \E i \in DOMAIN pollCycles :
             IF pollCycles[i].pos < Len(markets)
             THEN /\ pollCycles' = [pollCycles EXCEPT ![i].pos = @ + 1]
                  /\ last'.broadcasts = 0
             ELSE /\ pollCycles' = RemoveAt(pollCycles, i)
                  /\ last'.broadcasts = 1 ]_vars

\* the only poll cycle in flight failed on its first pair, whose earlier
\* price is still stored, and now awaits its second pair
C10_Witness ==
  /\ last.op = "fetch"
  /\ ~last.ok
  /\ last.broadcasts = 0
  /\ Len(pollCycles) = 1
  /\ pollCycles[1].pos = 2
  /\ markets[1] \in DOMAIN lastSerumPrices

\* a step in which an updateAllSerumPrices call returns: after the fetches
\* of its last pair, or at once when no market is loaded
CycleFinishes ==
  \/ last'.op = "fetch" /\ Len(pollCycles') < Len(pollCycles)
  \/ last'.op = "pollTick" /\ pollCycles' = pollCycles
  \/ /\ last'.op = "marketLoad"
     /\ initPc = Len(TRADING_PAIRS)
     /\ initPc' # initPc
     /\ pollCycles' = pollCycles

\* C11: a poll cycle that has gone through all its pairs calls the broadcast
\* exactly once, at its end, whatever the outcomes of its fetches; before
\* its end it calls none.
C11_OneBroadcastPerFinishedCycle ==
  [][ /\ CycleFinishes => last'.broadcasts = 1
      /\ (last'.op = "fetch" /\ Len(pollCycles') = Len(pollCycles))
           => last'.broadcasts = 0 ]_vars

\* a poll cycle over two markets has ended with a failed fetch and its one
\* broadcast, and no fetch has ever stored a price
C11_Witness ==
  /\ last.op = "fetch"
  /\ ~last.ok
  /\ last.broadcasts = 1
  /\ Len(markets) = 2
  /\ lastSerumPrices = EmptyMap

\* the pairs that have a market handle
MarketNames == { markets[i] : i \in DOMAIN markets }

\* C12: a pair whose market-handle resolution failed at startup has no
\* poll in flight, never has an on-chain price, and is in no record sent
\* to a client; the pairs that resolved are the ones polled.
C12_FailedPairExcluded ==
  /\ \A p \in loadFailed :
       /\ \A i \in DOMAIN pollCycles : markets[pollCycles[i].pos] # p
       /\ p \notin DOMAIN lastSerumPrices
       /\ \A s \in last.sends : p \notin PairsOf(s.data)
  /\ \A i \in DOMAIN pollCycles : pollCycles[i].pos \in DOMAIN markets
  /\ MarketNames \cup loadFailed =
       { TRADING_PAIRS[i].name : i \in { j \in DOMAIN TRADING_PAIRS : j < initPc } }

\* the first pair's resolution failed, it has an exchange price, and the
\* second pair, which resolved, is in a record broadcast to a client
C12_Witness ==
  /\ TRADING_PAIRS[1].name \in loadFailed
  /\ TRADING_PAIRS[1].name \in DOMAIN lastBinancePrices
  /\ \E s \in BroadcastSends : PairsOf(s.data) = {TRADING_PAIRS[2].name}

\* the call of updateAllSerumPrices that startSerumWebSockets awaits is in
\* flight (the interval is not set before it returns, so it is alone)
FirstCycleInFlight == pollCycles # << >> /\ pollCycles[1].first

\* C13: when a fetch of the very first poll cycle throws, the startup is
\* retried after the delay (a timer is set) and the periodic polling does
\* not begin with that cycle.
C13_FirstCycleThrowRetriesStartup ==
  [][ (FirstCycleInFlight /\ last'.op = "fetch" /\ last'.kind = "rejected") =>
        /\ last'.scheduled = 1
        /\ ~intervalOn' ]_vars

\* the first poll cycle awaits the fetches of the first of two markets
FirstFetchPending ==
  /\ proc = "running"
  /\ Len(markets) = 2
  /\ FirstCycleInFlight
  /\ pollCycles[1].pos = 1

\* C14: a fetch that hangs for one pair does not block the others: while
\* the first market's fetch of a poll cycle is pending, the second
\* market's on-chain price is still stored (its own fetches succeeding),
\* for as long as the process runs.
C14_HungFetchDoesNotBlockOthers ==
  FirstFetchPending ~>
    ((Len(markets) = 2 /\ markets[2] \in DOMAIN lastSerumPrices) \/ proc # "running")

\* C15: at most one poll cycle, and so at most one fetch per pair, is in
\* flight at any time.
C15_OnePollCycleInFlight ==
  /\ Len(pollCycles) <= 1
  /\ \A i, j \in DOMAIN pollCycles : i # j => pollCycles[i].pos # pollCycles[j].pos

\* the client messages that are not JSON, and the SUBSCRIBE requests whose
\* params is missing or is not a list
InvalidClientMessages ==
  { m \in ClientMessages : ~m.json \/ (m.method = "SUBSCRIBE" /\ m.params # "list") }

\* C16: a client message that is malformed JSON, or a SUBSCRIBE request
\* whose params is missing or not a list of topics, leaves the client
\* connected and registered, changes no server state and has nothing sent
\* back.
C16_InvalidRequestIgnored ==
  [][ \A c \in ClientIds, m \in InvalidClientMessages :
        ClientMessage(c, m) =>
          /\ last'.sends = {}
          /\ clients' = clients
          /\ readyState' = readyState
          /\ lastBinancePrices' = lastBinancePrices
          /\ lastSerumPrices' = lastSerumPrices ]_vars

\* the spread records of the messages just sent
SentRecords == UNION { { s.data[i] : i \in DOMAIN s.data } : s \in last.sends }

\* the hundredths of a percentDifference string, without its sign
Hundredths(text) == 100 * text.whole + text.cents

\* C17: for positive prices, priceDifference is
\* exchangePrice * (1 - 0.001) - onChainPrice * (1 - 0.003), negative when
\* the on-chain side is dearer, and percentDifference is that difference
\* over onChainPrice * (1 - 0.003), times 100, rounded to two decimals (the
\* nearest hundredth, with the sign of the difference); 50000 and 49900 give
\* 199.7 and "0.40".  The difference is in units of 1/(1000 * PriceScale).
C17_SpreadFormula ==
  \A r \in SentRecords :
    LET effectiveExchange == r.binancePrice.v * (1000 - BinanceFeePerMille)
        effectiveOnChain == r.serumPrice.v * (1000 - SolanaFeePerMille)
        difference == effectiveExchange - effectiveOnChain
    IN /\ r.priceDifference = Fin(difference)
       /\ (effectiveOnChain > effectiveExchange) = (r.priceDifference.v < 0)
       /\ r.percentDifference.text = "fixed"
       /\ (r.percentDifference.sign = "-") = (difference < 0)
       /\ IF r.binancePrice.v \in GridPrices /\ r.serumPrice.v \in GridPrices
          THEN 2 * Abs(Hundredths(r.percentDifference) * effectiveOnChain
                       - 100 * 100 * Abs(difference)) <= effectiveOnChain
          ELSE /\ difference * 10 = 1997 * 1000 * PriceScale
               /\ r.percentDifference.whole = 0
               /\ r.percentDifference.cents = 40

\* the record of the documented example has been sent to the client
C17_Witness ==
  \E r \in SentRecords :
    /\ r.binancePrice = Fin(ExamplePrices.exchange)
    /\ r.serumPrice = Fin(ExamplePrices.onChain)

TickerMessages == { m \in BinanceMessages : BinanceMessageKind(m) = "ticker" }

\* the maps agree on every pair but p
SameExcept(after, before, p) ==
  \A q \in (DOMAIN after \cup DOMAIN before) \ {p} : MapGet(after, q) = MapGet(before, q)

\* C19: the exchange-price map is written by the ticker handler only and
\* the on-chain map by the poller only; a tick for a pair changes nothing
\* but that pair's exchange price; a tick whose symbol resolves to no
\* configured pair changes nothing and triggers no broadcast; no entry is
\* ever removed from either map.
C19_StoreFrame ==
  [][ /\ lastBinancePrices' # lastBinancePrices => last'.op = "binanceMessage"
      /\ lastSerumPrices' # lastSerumPrices => last'.op = "fetch"
      /\ DOMAIN lastBinancePrices \subseteq DOMAIN lastBinancePrices'
      /\ DOMAIN lastSerumPrices \subseteq DOMAIN lastSerumPrices'
      /\ last'.op = "binanceMessage" =>
           \A i \in DOMAIN binanceConns, m \in TickerMessages :
             BinanceMessage(i, m) =>
               /\ SameExcept(lastBinancePrices', lastBinancePrices, FindPair(m.stream[1]))
               /\ UNCHANGED << proc, markets, lastSerumPrices, binanceConns, binanceWs,
                               reconnectTimers, intervalOn, pollCycles, wssOpen,
                               clients, readyState >>
               /\ FindPair(m.stream[1]) = "" =>
                    /\ lastBinancePrices' = lastBinancePrices
                    /\ last'.broadcasts = 0
                    /\ last'.sends = {} ]_vars

\* a tick of a symbol that is not configured has been ignored while both
\* maps hold prices
C19_Witness ==
  /\ last.op = "binanceMessage"
  /\ last.kind = "ticker"
  /\ ~last.ok
  /\ lastBinancePrices # EmptyMap
  /\ lastSerumPrices # EmptyMap

\* C20: once cleanup has run, no exchange socket is opened and no
\* reconnect is scheduled, the socket it closed included; every registered
\* client connection has been closed; and no client is accepted.
C20_ShutdownIsFinal ==
  [][ ~wssOpen' =>
        /\ \A i \in DOMAIN binanceConns' : binanceConns'[i] = "CLOSING"
        /\ Len(binanceConns') <= Len(binanceConns)
        /\ reconnectTimers' <= reconnectTimers
        /\ last'.scheduled = 0
        /\ \A c \in clients' : readyState'[c] \in {"CLOSING", "CLOSED"}
        /\ clients' \subseteq clients
        /\ \A c \in ClientIds : readyState[c] = "none" => readyState'[c] = "none" ]_vars

\* cleanup has run while the exchange socket was open and a client was
\* connected: both are closing
C20_Witness ==
  /\ last.op = "cleanup"
  /\ binanceConns = << "CLOSING" >>
  /\ binanceWs = "live"
  /\ clients # {}
  /\ \A c \in clients : readyState[c] = "CLOSING"

====
